---- MODULE Spec2Model ----
(***************************************************************************)
(* Verification model of album-studio's aspect-locked crop engine:         *)
(*   - Config.parse_size_ratio / Config.get_size_info   (models/config.py) *)
(*   - CropService.get_crop_dimensions / crop_image (services/crop_service)*)
(*   - CropWorker.run / cancel                      (services/crop_service)*)
(*   - CropOverlay gestures                     (ui/widgets/crop_overlay)  *)
(*   - ImageWidget preview <-> source mapping     (ui/widgets/image_grid)  *)
(*   - ImageItem tags and MainWindow handlers  (models/image_item, ui/...) *)
(*                                                                         *)
(* Numbers.  The Python code computes with floats and truncates with int().*)
(* A ratio W/H is kept here as the pair <<W, H>> and int(a / ratio),       *)
(* int(a * ratio) are computed exactly as (a*H) \div W and (a*W) \div H.   *)
(* The size identifiers and scale factors drawn below are those for which  *)
(* the float computation and the exact one agree on every operand up to    *)
(* 4000 (ratios 1/1, 3/2, 2/3, 3/1, 1/2 ...; ratios such as 7/5 are left   *)
(* out because int(45 * (7/5)) is 62 in floats and 63 exactly).            *)
(***************************************************************************)
EXTENDS Integers, Sequences, FiniteSets, TLC

VARIABLES
    \* ---- FitCalculator harness (SpecFit) ----
    fit_call,        \* arguments of one get_crop_dimensions call
    fit_pc,          \* "call" before the call, "returned" after it
    fit_result,      \* the value returned (None before the call)
    \* ---- one ImageWidget with its CropOverlay (SpecOverlay, SpecResize) ----
    img_size,        \* <<width, height>> of the source file of image_item
    size_tag,        \* image_item.size_tag
    crop_box,        \* image_item.crop_box: <<x, y, width, height>> or None
    in_preview_mode, \* ImageWidget.in_preview_mode
    crop_rect,       \* CropOverlay.crop_rect, widget coordinates
    image_bounds,    \* CropOverlay.image_bounds
    aspect_ratio,    \* CropOverlay.aspect_ratio as <<W, H>>
    min_size,        \* CropOverlay.min_size
    gesture,         \* "none", "dragging" or "resizing" (the two flags)
    resize_corner,   \* CropOverlay.resize_corner
    start_rect,      \* rect_start_pos / resize_start_rect of the gesture
    n_gestures,      \* gestures completed so far (bounds the exploration)
    \* ---- coordinate round trip harness (SpecMap) ----
    map_box,         \* the crop box the round trip started from
    map_pc,          \* "stored", "applied" (to the overlay), "saved" (back)
    \* ---- a project and its CropWorker (SpecBatch) ----
    images,          \* Project.images: sequence of ImageItem records
    files,           \* the disk: file_path -> <<width, height>>, None if undecodable
    worker_pc,       \* position of CropWorker.run
    cancelled,       \* CropWorker.cancelled
    tagged_images,   \* run's local list: indices into images (items by reference)
    item_index,      \* run's loop variable i
    cropped_count,   \* run's local cropped_count
    final_img,       \* crop_image's resized image in memory: its size, or None
    progress_updated,\* emissions of the progress_updated signal
    finished_signal, \* emissions of the finished_signal signal
    attempts,        \* returned crop_image calls: [item, success]
    written,         \* files saved by crop_image: [path, size, item]
    cancel_at,       \* where run stood when cancel() was called (history)
    \* ---- the size identifier parsers of Config (SpecParse) ----
    parse_arg,       \* the size_id string handed to the parsers
    parse_done,      \* which of the three functions have been called
    ratio_result,    \* parse_size_ratio(parse_arg): <<W, H>> or ValueError
    dims_result,     \* parse_size_dimensions(parse_arg): <<W, H>> or ValueError
    valid_result     \* validate_size_id(parse_arg)

\* Python's None.  Every value that may be None is a tuple, so that the two
\* compare: strings are character sequences, boxes are <<x, y, width, height>>.
None == <<>>

\* The exception parse_size_ratio raises.
ValueError == <<"ValueError">>

fitVars == <<fit_call, fit_pc, fit_result>>

overlayVars == <<img_size, size_tag, crop_box, in_preview_mode, crop_rect,
                 image_bounds, aspect_ratio, min_size, gesture, resize_corner,
                 start_rect, n_gestures>>

mapVars == <<map_box, map_pc>>

batchVars == <<images, files, worker_pc, cancelled, tagged_images, item_index,
               cropped_count, final_img, progress_updated, finished_signal,
               attempts, written, cancel_at>>

parseVars == <<parse_arg, parse_done, ratio_result, dims_result, valid_result>>

vars == <<fitVars, overlayVars, mapVars, batchVars, parseVars>>

\* What the actions of one component leave alone.
otherThanFit == <<overlayVars, mapVars, batchVars, parseVars>>
otherThanOverlay == <<fitVars, mapVars, batchVars, parseVars>>
otherThanBatch == <<fitVars, overlayVars, mapVars, parseVars>>
otherThanParse == <<fitVars, overlayVars, mapVars, batchVars>>

Max(a, b) == IF a >= b THEN a ELSE b
Min(a, b) == IF a <= b THEN a ELSE b
Abs(a) == IF a >= 0 THEN a ELSE -a

(***************************************************************************)
(* Size identifiers are strings; a string is modelled as the sequence of   *)
(* its characters so that re.match can be modelled by what it does.        *)
(***************************************************************************)
Digits == {"0", "1", "2", "3", "4", "5", "6", "7", "8", "9"}

DigitVal(c) ==
    CASE c = "0" -> 0 [] c = "1" -> 1 [] c = "2" -> 2 [] c = "3" -> 3
      [] c = "4" -> 4 [] c = "5" -> 5 [] c = "6" -> 6 [] c = "7" -> 7
      [] c = "8" -> 8 [] c = "9" -> 9

\* Length of the longest run of digits of s that starts at position i (1-based).
RECURSIVE DigitRun(_, _)
DigitRun(s, i) ==
    IF i <= Len(s) /\ s[i] \in Digits THEN 1 + DigitRun(s, i + 1) ELSE 0

\* int() of the decimal digits s[i .. i+n-1].
RECURSIVE IntOf(_, _, _)
IntOf(s, i, n) ==
    IF n = 0 THEN 0 ELSE IntOf(s, i, n - 1) * 10 + DigitVal(s[i + n - 1])

\* re.match(r'(\d+)x(\d+)', size_id, re.IGNORECASE): anchored at the start
\* only; both groups are greedy; whatever follows the second group is ignored.
\* The result is <<int(group 1), int(group 2)>>, or None when there is no match.
SizeIdMatch(size_id) ==
    LET n1 == DigitRun(size_id, 1)
        n2 == DigitRun(size_id, n1 + 2)
    IN  IF /\ n1 >= 1
           /\ Len(size_id) >= n1 + 1
           /\ size_id[n1 + 1] \in {"x", "X"}
           /\ n2 >= 1
        THEN <<IntOf(size_id, 1, n1), IntOf(size_id, n1 + 2, n2)>>
        ELSE None

\* Config.parse_size_ratio: the ratio width/height as the pair <<width, height>>;
\* ValueError when the identifier does not match or the height is zero.
parse_size_ratio(size_id) ==
    LET m == SizeIdMatch(size_id)
    IN  IF m = None THEN ValueError
        ELSE IF m[2] = 0 THEN ValueError
        ELSE m

\* Config.parse_size_dimensions: <<width, height>> as integers; ValueError
\* when the identifier does not match.  A zero height is not rejected.
parse_size_dimensions(id) ==
    LET m == SizeIdMatch(id)
    IN  IF m = None THEN ValueError ELSE m

\* re.match(r'^\d+x\d+$', size_id, re.IGNORECASE): the whole string must be
\* digits, x, digits; Python's $ also matches before one final newline.
validate_size_id(id) ==
    LET n1 == DigitRun(id, 1)
        n2 == DigitRun(id, n1 + 2)
    IN  /\ n1 >= 1
        /\ Len(id) >= n1 + 1
        /\ id[n1 + 1] \in {"x", "X"}
        /\ n2 >= 1
        /\ \/ Len(id) = n1 + 1 + n2
           \/ Len(id) = n1 + 2 + n2 /\ id[Len(id)] = "\n"

\* Config.sizes: the deprecated sizes.json table, empty unless the file exists.
sizes == [n \in {} |-> None]

\* Config.get_size_info: {"ratio": r}, or the legacy table's entry, or {}.
\* The dict is modelled by its "ratio" entry; None stands for the empty dict.
get_size_info(size_name) ==
    LET r == parse_size_ratio(size_name)
    IN  IF r # ValueError THEN r
        ELSE IF size_name \in DOMAIN sizes THEN sizes[size_name]
        ELSE None

\* Python truthiness of a ratio: a float is falsy iff it is 0.0.
RatioIsTruthy(ratio) == ratio # None /\ ratio[1] # 0

\* Mutation of DivRatio: the operand is multiplied by the ratio instead of
\* divided by it.
DivRatio_multiplies(a, ratio) == (a * ratio[1]) \div ratio[2]

\* int(a / ratio) for a >= 0.
DivRatio(a, ratio) == (a * ratio[2]) \div ratio[1]

\* int(a * ratio) for a >= 0.
MulRatio(a, ratio) == (a * ratio[1]) \div ratio[2]

\* Mutation of LargestFit: the fit-by-height candidate is returned without
\* the test that selects it.
LargestFit_alwaysByHeight(ratio, width, height) ==
    <<MulRatio(height, ratio), height>>

\* The fit-by-width / fit-by-height selection shared by get_crop_dimensions,
\* _calculate_initial_crop and _constrain_to_bounds.
LargestFit(ratio, width, height) ==
    LET by_width_h  == DivRatio(width, ratio)
        by_height_w == MulRatio(height, ratio)
    IN  IF by_width_h <= height
        THEN <<width, by_width_h>>
        ELSE <<by_height_w, height>>

\* CropService.get_crop_dimensions: (crop_width, crop_height) or None.
get_crop_dimensions(tag, image_width, image_height) ==
    LET ratio == get_size_info(tag)
    IN  IF ~RatioIsTruthy(ratio) THEN None
        ELSE LargestFit(ratio, image_width, image_height)

----------------------------------------------------------------------------
(***************************************************************************)
(* QRect.  A rectangle is <<x, y, width, height>>; Qt stores the corners   *)
(* (x1, y1, x2, y2) with x2 = x1 + width - 1, so right() and bottom() are  *)
(* the last pixel inside the rectangle, not one past it.                   *)
(***************************************************************************)
QRect(x, y, w, h) == <<x, y, w, h>>
Left(r)   == r[1]
Top(r)    == r[2]
Width(r)  == r[3]
Height(r) == r[4]
Right(r)  == r[1] + r[3] - 1
Bottom(r) == r[2] + r[4] - 1

\* setWidth / setHeight move the right / bottom edge.
SetWidth(r, w)  == <<r[1], r[2], w, r[4]>>
SetHeight(r, h) == <<r[1], r[2], r[3], h>>
\* setLeft / setTop move the left / top edge and keep the opposite edge.
SetLeft(r, l) == <<l, r[2], r[1] + r[3] - l, r[4]>>
SetTop(r, t)  == <<r[1], t, r[3], r[2] + r[4] - t>>
\* moveLeft / moveTop / translate keep the size.
MoveLeft(r, l) == <<l, r[2], r[3], r[4]>>
MoveTop(r, t)  == <<r[1], t, r[3], r[4]>>
Translate(r, dx, dy) == <<r[1] + dx, r[2] + dy, r[3], r[4]>>

Corners == {"top_left", "top_right", "bottom_left", "bottom_right"}

\* The four position clamps of mouseMoveEvent (drag) and _constrain_to_bounds:
\* left, top, right, bottom, in this order; the size is not touched.
ClampPosition(rect, bounds) ==
    LET r1 == IF Left(rect) < Left(bounds) THEN MoveLeft(rect, Left(bounds)) ELSE rect
        r2 == IF Top(r1) < Top(bounds) THEN MoveTop(r1, Top(bounds)) ELSE r1
        r3 == IF Right(r2) > Right(bounds)
              THEN MoveLeft(r2, Right(bounds) - Width(r2)) ELSE r2
    IN  IF Bottom(r3) > Bottom(bounds)
        THEN MoveTop(r3, Bottom(bounds) - Height(r3)) ELSE r3

\* Mutation of EnforceMinSize: the size is left as it is.
EnforceMinSize_off(w, h, ratio, ms) == <<w, h>>

\* The minimum-size step of _constrain_to_bounds: <<width, height>>.
EnforceMinSize(w, h, ratio, ms) ==
    IF w < ms \/ h < ms
    THEN IF ratio[1] >= ratio[2]
         THEN LET new_height == Max(ms, h)
                  new_width  == MulRatio(new_height, ratio)
              IN  IF new_width < ms
                  THEN <<ms, DivRatio(ms, ratio)>>
                  ELSE <<new_width, new_height>>
         ELSE LET new_width  == Max(ms, w)
                  new_height == DivRatio(new_width, ratio)
              IN  IF new_height < ms
                  THEN <<MulRatio(ms, ratio), ms>>
                  ELSE <<new_width, new_height>>
    ELSE <<w, h>>

\* The shrink step of _constrain_to_bounds: <<width, height>>.
ShrinkToBounds(w, h, ratio, bounds) ==
    IF w > Width(bounds) \/ h > Height(bounds)
    THEN LargestFit(ratio, Width(bounds), Height(bounds))
    ELSE <<w, h>>

\* CropOverlay._constrain_to_bounds.
constrain_to_bounds(rect, ratio, ms, bounds) ==
    LET s1 == EnforceMinSize(Width(rect), Height(rect), ratio, ms)
        s2 == ShrinkToBounds(s1[1], s1[2], ratio, bounds)
    IN  ClampPosition(SetHeight(SetWidth(rect, s2[1]), s2[2]), bounds)

\* Mutation of LimitingSize: the branches are exchanged.
LimitingSize_exchanged(new_width, new_height, ratio) ==
    IF new_width * ratio[2] <= new_height * ratio[1]
    THEN <<MulRatio(new_height, ratio), new_height>>
    ELSE <<new_width, DivRatio(new_width, ratio)>>

\* The ratio tie-break of _resize_from_corner: the final <<width, height>> for
\* the raw candidate (new_width, new_height).
LimitingSize(new_width, new_height, ratio) ==
    IF new_width * ratio[2] <= new_height * ratio[1]
    THEN <<new_width, DivRatio(new_width, ratio)>>
    ELSE <<MulRatio(new_height, ratio), new_height>>

\* Mutation of ResizedSize: the raw candidate is kept as it is, without the
\* ratio tie-break.
ResizedSize_raw(corner, start, dx, dy, ratio, ms) ==
    LET width_delta  == IF corner \in {"bottom_left", "top_left"} THEN -dx ELSE dx
        height_delta == IF corner \in {"top_right", "top_left"} THEN -dy ELSE dy
    IN  <<Max(ms, Width(start) + width_delta), Max(ms, Height(start) + height_delta)>>

\* The size computed by _resize_from_corner before it is constrained.
ResizedSize(corner, start, dx, dy, ratio, ms) ==
    LET width_delta  == IF corner \in {"bottom_left", "top_left"} THEN -dx ELSE dx
        height_delta == IF corner \in {"top_right", "top_left"} THEN -dy ELSE dy
        new_width    == Max(ms, Width(start) + width_delta)
        new_height   == Max(ms, Height(start) + height_delta)
    IN  LimitingSize(new_width, new_height, ratio)

\* CropOverlay._resize_from_corner, with delta = current_pos - resize_start_pos.
resize_from_corner(corner, start, dx, dy, ratio, ms, bounds) ==
    LET f  == ResizedSize(corner, start, dx, dy, ratio, ms)
        r1 == IF corner \in {"bottom_left", "top_left"}
              THEN SetLeft(start, Right(start) - f[1]) ELSE start
        r2 == IF corner \in {"top_right", "top_left"}
              THEN SetTop(r1, Bottom(start) - f[2]) ELSE r1
    IN  constrain_to_bounds(SetHeight(SetWidth(r2, f[1]), f[2]), ratio, ms, bounds)

\* The drag branch of CropOverlay.mouseMoveEvent,
\* with delta = current_pos - drag_start_pos.
drag_to(start, dx, dy, bounds) == ClampPosition(Translate(start, dx, dy), bounds)

\* "rect is fully contained in bounds", in edges:
\* left >= bounds.left, top >= bounds.top,
\* left + width <= bounds.left + bounds.width, same for the height.
ContainedIn(rect, bounds) ==
    /\ Left(rect) >= Left(bounds)
    /\ Top(rect) >= Top(bounds)
    /\ Left(rect) + Width(rect) <= Left(bounds) + Width(bounds)
    /\ Top(rect) + Height(rect) <= Top(bounds) + Height(bounds)

----------------------------------------------------------------------------
(***************************************************************************)
(* ImageWidget: the thumbnail, the pixmap rectangle and the two mappings   *)
(* between source pixels and overlay (preview) pixels.                     *)
(***************************************************************************)
\* int(a / b) for b > 0: Python's int() truncates toward zero.
TruncDiv(a, b) == IF a >= 0 THEN a \div b ELSE -((-a) \div b)

\* config.get_setting("thumbnail_size", 200): the side of the square label.
thumbnail_size == 200

\* MAX_ANALYSIS_SIZE of _calculate_initial_crop.
MAX_ANALYSIS_SIZE == 600

\* QSize.scaled(target, KeepAspectRatio) as get_thumbnail / load_pixmap use it.
QSizeScaled(w, h, tw, th) ==
    LET rw == (th * w) \div h
    IN  IF rw <= tw THEN <<rw, th>> ELSE <<tw, (tw * h) \div w>>

\* ImageItem.get_thumbnail(size): loaded at 2*size, then scaled to fit size.
get_thumbnail(img, size) ==
    LET loaded == QSizeScaled(img[1], img[2], 2 * size, 2 * size)
    IN  IF loaded[1] > size \/ loaded[2] > size
        THEN QSizeScaled(loaded[1], loaded[2], size, size)
        ELSE loaded

\* ImageWidget._get_pixmap_rect: the pixmap centred in the label.
get_pixmap_rect(thumb) ==
    QRect((thumbnail_size - thumb[1]) \div 2, (thumbnail_size - thumb[2]) \div 2,
          thumb[1], thumb[2])

\* Mutation of ToPreview: the centring offset is left out.
ToPreview_noOffset(box, img, thumb) ==
    QRect(TruncDiv(box[1] * thumb[1], img[1]), TruncDiv(box[2] * thumb[2], img[2]),
          TruncDiv(box[3] * thumb[1], img[1]), TruncDiv(box[4] * thumb[2], img[2]))

\* The conversion of _apply_crop_box_to_overlay: source box -> overlay rect,
\* scale_x = thumb_width / img_width, scale_y = thumb_height / img_height.
ToPreview(box, img, thumb) ==
    LET pixmap_rect == get_pixmap_rect(thumb)
    IN  QRect(TruncDiv(box[1] * thumb[1], img[1]) + Left(pixmap_rect),
              TruncDiv(box[2] * thumb[2], img[2]) + Top(pixmap_rect),
              TruncDiv(box[3] * thumb[1], img[1]),
              TruncDiv(box[4] * thumb[2], img[2]))

\* The conversion of _save_crop_from_overlay: overlay rect -> source box,
\* scale_x = img_width / thumb_width, scale_y = img_height / thumb_height.
ToSource(rect, img, thumb) ==
    LET pixmap_rect == get_pixmap_rect(thumb)
    IN  <<TruncDiv((Left(rect) - Left(pixmap_rect)) * img[1], thumb[1]),
          TruncDiv((Top(rect) - Top(pixmap_rect)) * img[2], thumb[2]),
          TruncDiv(Width(rect) * img[1], thumb[1]),
          TruncDiv(Height(rect) * img[2], thumb[2])>>

\* The rectangle _set_centered_crop gives the overlay: 80% of the pixmap.
\* Mutation of centered_crop: the rectangle is put at the pixmap's top left
\* corner instead of its centre.
centered_crop_atOrigin(ratio, thumb) ==
    LET pixmap_rect == get_pixmap_rect(thumb)
        pw == Width(pixmap_rect)
        ph == Height(pixmap_rect)
        by_height_h == (ph * 4) \div 5
        by_width_w  == (pw * 4) \div 5
        size == IF pw * ratio[2] > ph * ratio[1]
                THEN <<MulRatio(by_height_h, ratio), by_height_h>>
                ELSE <<by_width_w, DivRatio(by_width_w, ratio)>>
    IN  QRect(Left(pixmap_rect), Top(pixmap_rect), size[1], size[2])

centered_crop(ratio, thumb) ==
    LET pixmap_rect == get_pixmap_rect(thumb)
        pw == Width(pixmap_rect)
        ph == Height(pixmap_rect)
        by_height_h == (ph * 4) \div 5
        by_width_w  == (pw * 4) \div 5
        size == IF pw * ratio[2] > ph * ratio[1]
                THEN <<MulRatio(by_height_h, ratio), by_height_h>>
                ELSE <<by_width_w, DivRatio(by_width_w, ratio)>>
    IN  QRect(Left(pixmap_rect) + (pw - size[1]) \div 2,
              Top(pixmap_rect) + (ph - size[2]) \div 2,
              size[1], size[2])

\* PIL's Image.thumbnail((600, 600)) size: the side that is derived from the
\* aspect ratio is floor or ceil of the exact value, whichever keeps the
\* aspect ratio better (floor on ties), and at least 1.
AnalysisSize(img) ==
    LET m == MAX_ANALYSIS_SIZE
        w == img[1]
        h == img[2]
    IN  IF w <= m /\ h <= m THEN img
        ELSE IF w <= h
        THEN LET lo == (m * w) \div h
                 hi == IF (m * w) % h = 0 THEN lo ELSE lo + 1
                 x  == IF Abs(m * w - lo * h) <= Abs(m * w - hi * h) THEN lo ELSE hi
             IN  <<Max(x, 1), m>>
        ELSE LET lo == (m * h) \div w
                 hi == IF (m * h) % w = 0 THEN lo ELSE lo + 1
                 y  == IF lo = 0 THEN lo
                       ELSE IF Abs(w * lo - m * h) * hi <= Abs(w * hi - m * h) * lo
                       THEN lo ELSE hi
             IN  <<m, Max(y, 1)>>

\* The origins the external suggester may return for a box of size <<tw, th>>
\* in a bitmap of size bitmap: a black box, so any origin that keeps the box
\* inside the bitmap; the corners and the centre are explored.
SuggestedOrigins(bitmap, tw, th) ==
    {<<x, y>> : x \in {0, (bitmap[1] - tw) \div 2, bitmap[1] - tw},
                y \in {0, (bitmap[2] - th) \div 2, bitmap[2] - th}}

\* The crop box _calculate_initial_crop stores when the suggester answers with
\* origin: scale_factor = image_width / analysis_width.
suggested_crop_box(origin, ratio, img) ==
    LET analysis == AnalysisSize(img)
        target   == LargestFit(ratio, img[1], img[2])
        atw      == TruncDiv(target[1] * analysis[1], img[1])
        ath      == TruncDiv(target[2] * analysis[1], img[1])
    IN  <<TruncDiv(origin[1] * img[1], analysis[1]),
          TruncDiv(origin[2] * img[1], analysis[1]),
          TruncDiv(atw * img[1], analysis[1]),
          TruncDiv(ath * img[1], analysis[1])>>

\* The analysis-space target size handed to the suggester.
AnalysisTarget(ratio, img) ==
    LET analysis == AnalysisSize(img)
        target   == LargestFit(ratio, img[1], img[2])
    IN  <<TruncDiv(target[1] * analysis[1], img[1]),
          TruncDiv(target[2] * analysis[1], img[1])>>

----------------------------------------------------------------------------
(***************************************************************************)
(* SpecFit: get_crop_dimensions applied to inputs drawn from bounded sets. *)
(***************************************************************************)
MaxDim == 12

S(a, b) == <<a, "x", b>>

\* Size identifiers offered by the size groups (ratio > 0), plus "0x4" whose
\* ratio is 0.0 and "4x0" which parse_size_ratio rejects.
FitSizeIds ==
    {S("1", "1"), S("9", "6"), S("6", "9"), S("3", "1"), S("1", "2"),
     S("4", "3"), S("3", "4"), S("5", "3"), S("0", "4"), S("4", "0")}

FitImageSizes ==
    ((1..MaxDim) \X (1..MaxDim)) \cup {<<4000, 3000>>, <<3000, 4000>>}

FitCalls ==
    {[size_tag |-> s, image_width |-> d[1], image_height |-> d[2]] :
        s \in FitSizeIds, d \in FitImageSizes}

\* The state of the widget harness while another harness runs.
OverlayIdle ==
    /\ img_size = None
    /\ size_tag = None
    /\ crop_box = None
    /\ in_preview_mode = FALSE
    /\ crop_rect = None
    /\ image_bounds = None
    /\ aspect_ratio = None
    /\ min_size = 0
    /\ gesture = "none"
    /\ resize_corner = None
    /\ start_rect = None
    /\ n_gestures = 0

\* The state of the round-trip harness while another harness runs.
MapIdle ==
    /\ map_box = None
    /\ map_pc = "idle"

\* The state of the parser harness while another harness runs.
ParseIdle ==
    /\ parse_arg = None
    /\ parse_done = {}
    /\ ratio_result = None
    /\ dims_result = None
    /\ valid_result = FALSE

\* The state of the batch harness while another harness runs.
BatchIdle ==
    /\ images = <<>>
    /\ files = <<>>
    /\ worker_pc = "idle"
    /\ cancelled = FALSE
    /\ tagged_images = <<>>
    /\ item_index = 0
    /\ cropped_count = 0
    /\ final_img = None
    /\ progress_updated = <<>>
    /\ finished_signal = <<>>
    /\ attempts = <<>>
    /\ written = <<>>
    /\ cancel_at = None

FitInit ==
    /\ fit_call \in FitCalls
    /\ fit_pc = "call"
    /\ fit_result = None
    /\ OverlayIdle
    /\ MapIdle
    /\ BatchIdle
    /\ ParseIdle

CallGetCropDimensions ==
    /\ fit_pc = "call"
    /\ fit_pc' = "returned"
    /\ fit_result' = get_crop_dimensions(fit_call.size_tag,
                                         fit_call.image_width,
                                         fit_call.image_height)
    /\ UNCHANGED <<fit_call, otherThanFit>>

FitNext == CallGetCropDimensions

SpecFit == FitInit /\ [][FitNext]_vars

FitReturned == fit_pc = "returned" /\ fit_result # None

\* The ratio of the call, once it returned dimensions.
FitRatio == parse_size_ratio(fit_call.size_tag)

\* C9: the maximal-fit dimensions never exceed the image: cw <= image_width
\* and ch <= image_height, for every ratio > 0 and every image size.
C9_FitContained ==
    FitReturned =>
        /\ fit_result[1] <= fit_call.image_width
        /\ fit_result[2] <= fit_call.image_height

\* C9 witness: a fit-by-height result (the width was derived from the ratio)
\* that is strictly narrower than the image.
C9_Witness ==
    /\ FitReturned
    /\ fit_result[2] = fit_call.image_height
    /\ fit_result[1] < fit_call.image_width
    /\ fit_result[1] > 0

\* |cw/ch - W/H| < 1/min(cw, ch), cross-multiplied (cw, ch > 0).
RatioWithinTolerance(cw, ch, ratio) ==
    Abs(cw * ratio[2] - ratio[1] * ch) * Min(cw, ch) < ratio[2] * ch

\* C10 (as claimed): cw/ch is within 1/min(cw, ch) of the ratio.
C10_FitRatioAsClaimed ==
    (FitReturned /\ fit_result[1] > 0 /\ fit_result[2] > 0) =>
        RatioWithinTolerance(fit_result[1], fit_result[2], FitRatio)

\* C10 (amended): cw/ch is within max(1, ratio)/min(cw, ch) of the ratio, i.e.
\* the side derived from the ratio is off by less than one pixel
\* (|cw - ratio*ch| < max(1, ratio)); cross-multiplied for ratio = W/H.
C10_FitRatioAmended ==
    (FitReturned /\ fit_result[1] > 0 /\ fit_result[2] > 0) =>
        Abs(fit_result[1] * FitRatio[2] - FitRatio[1] * fit_result[2])
              * Min(fit_result[1], fit_result[2])
            < Max(FitRatio[1], FitRatio[2]) * fit_result[2]

\* C10 witness: the spec's own example, 4000x3000 with "9x6" -> (4000, 2666).
C10_Witness ==
    /\ fit_call = [size_tag |-> S("9", "6"), image_width |-> 4000,
                   image_height |-> 3000]
    /\ fit_result = <<4000, 2666>>

----------------------------------------------------------------------------
(***************************************************************************)
(* SpecOverlay: one ImageWidget in crop preview mode.  The user enters and *)
(* leaves the preview, drags the crop rectangle and resizes it from its    *)
(* corners; every release saves the rectangle to image_item.crop_box.      *)
(***************************************************************************)
\* Gestures explored per behaviour.
MaxGestures == 2

\* Pointer deltas (current_pos - start_pos) per axis: none, one pixel back, a
\* short move forward, and moves far outside the label in both directions.
NearDelta == 30
FarDelta == 400
Deltas == {-FarDelta, -1, 0, NearDelta, FarDelta}

\* Source files shown in the grid (landscape and portrait).
OverlayImages == {<<800, 600>>, <<600, 800>>}

\* Size tags of the tag panel.
OverlaySizeIds == {S("9", "6"), S("1", "1"), S("6", "9")}

\* The state of the other harnesses while this one runs.
FitIdle ==
    /\ fit_call = None
    /\ fit_pc = "idle"
    /\ fit_result = None

\* ImageWidget.__init__ and CropOverlay.__init__.
OverlayInit ==
    /\ img_size \in OverlayImages
    /\ size_tag \in OverlaySizeIds
    /\ crop_box = None
    /\ in_preview_mode = FALSE
    /\ crop_rect = QRect(0, 0, 100, 100)
    /\ image_bounds = QRect(0, 0, 100, 100)
    /\ aspect_ratio = <<1, 1>>
    /\ min_size = 50
    /\ gesture = "none"
    /\ resize_corner = None
    /\ start_rect = None
    /\ n_gestures = 0
    /\ FitIdle
    /\ MapIdle
    /\ BatchIdle
    /\ ParseIdle

Thumb == get_thumbnail(img_size, thumbnail_size)

\* Mutation of EnterPreviewMode: the initial crop is calculated anew on every
\* entry, whether a crop box is stored or not.
EnterPreviewMode_recalculates ==
    /\ ~in_preview_mode
    /\ size_tag # None
    /\ in_preview_mode' = TRUE
    /\ LET info  == get_size_info(size_tag)
           ratio == IF info # None THEN info ELSE <<1, 1>>
       IN  /\ aspect_ratio' = ratio
           /\ image_bounds' = get_pixmap_rect(Thumb)
           /\ \/ /\ RatioIsTruthy(info)
                 /\ \E origin \in SuggestedOrigins(AnalysisSize(img_size),
                                     AnalysisTarget(info, img_size)[1],
                                     AnalysisTarget(info, img_size)[2]) :
                       /\ crop_box' = suggested_crop_box(origin, info, img_size)
                       /\ crop_rect' = ToPreview(crop_box', img_size, Thumb)
              \/ /\ crop_rect' = centered_crop(ratio, Thumb)
                 /\ crop_box' = ToSource(crop_rect', img_size, Thumb)
    /\ UNCHANGED <<img_size, size_tag, min_size, gesture, resize_corner,
                   start_rect, n_gestures, otherThanOverlay>>

\* ImageGrid.enter_preview_mode for the widget of a tagged image:
\* ImageWidget.enter_preview_mode with _calculate_initial_crop.  A saved crop
\* box is applied to the overlay; otherwise the suggester's box is stored and
\* applied, or, when it fails, the centred rectangle is set and saved.
EnterPreviewMode ==
    /\ ~in_preview_mode
    /\ size_tag # None
    /\ in_preview_mode' = TRUE
    /\ LET info  == get_size_info(size_tag)
           ratio == IF info # None THEN info ELSE <<1, 1>>
       IN  /\ aspect_ratio' = ratio
           /\ image_bounds' = get_pixmap_rect(Thumb)
           /\ IF crop_box # None
              THEN /\ crop_rect' = ToPreview(crop_box, img_size, Thumb)
                   /\ UNCHANGED crop_box
              ELSE \/ /\ RatioIsTruthy(info)
                      /\ \E origin \in SuggestedOrigins(AnalysisSize(img_size),
                                          AnalysisTarget(info, img_size)[1],
                                          AnalysisTarget(info, img_size)[2]) :
                            /\ crop_box' = suggested_crop_box(origin, info, img_size)
                            /\ crop_rect' = ToPreview(crop_box', img_size, Thumb)
                   \/ /\ crop_rect' = centered_crop(ratio, Thumb)
                      /\ crop_box' = ToSource(crop_rect', img_size, Thumb)
    /\ UNCHANGED <<img_size, size_tag, min_size, gesture, resize_corner,
                   start_rect, n_gestures, otherThanOverlay>>

\* ImageWidget.exit_preview_mode: the overlay is hidden.
ExitPreviewMode ==
    /\ in_preview_mode
    /\ gesture = "none"
    /\ in_preview_mode' = FALSE
    /\ UNCHANGED <<img_size, size_tag, crop_box, crop_rect, image_bounds,
                   aspect_ratio, min_size, gesture, resize_corner, start_rect,
                   n_gestures, otherThanOverlay>>

\* CropOverlay.mousePressEvent on a corner handle.
MousePressCorner(corner) ==
    /\ in_preview_mode
    /\ gesture = "none"
    /\ n_gestures < MaxGestures
    /\ gesture' = "resizing"
    /\ resize_corner' = corner
    /\ start_rect' = crop_rect
    /\ UNCHANGED <<img_size, size_tag, crop_box, in_preview_mode, crop_rect,
                   image_bounds, aspect_ratio, min_size, n_gestures, otherThanOverlay>>

\* CropOverlay.mousePressEvent inside the rectangle, away from the handles.
MousePressInside ==
    /\ in_preview_mode
    /\ gesture = "none"
    /\ n_gestures < MaxGestures
    /\ gesture' = "dragging"
    /\ start_rect' = crop_rect
    /\ UNCHANGED <<img_size, size_tag, crop_box, in_preview_mode, crop_rect,
                   image_bounds, aspect_ratio, min_size, resize_corner,
                   n_gestures, otherThanOverlay>>

\* CropOverlay.mouseMoveEvent while resizing.
MouseMoveResize(dx, dy) ==
    /\ gesture = "resizing"
    /\ crop_rect' = resize_from_corner(resize_corner, start_rect, dx, dy,
                                       aspect_ratio, min_size, image_bounds)
    /\ UNCHANGED <<img_size, size_tag, crop_box, in_preview_mode, image_bounds,
                   aspect_ratio, min_size, gesture, resize_corner, start_rect,
                   n_gestures, otherThanOverlay>>

\* CropOverlay.mouseMoveEvent while dragging.
MouseMoveDrag(dx, dy) ==
    /\ gesture = "dragging"
    /\ crop_rect' = drag_to(start_rect, dx, dy, image_bounds)
    /\ UNCHANGED <<img_size, size_tag, crop_box, in_preview_mode, image_bounds,
                   aspect_ratio, min_size, gesture, resize_corner, start_rect,
                   n_gestures, otherThanOverlay>>

\* CropOverlay.mouseReleaseEvent: crop_changed is emitted and the widget's
\* _on_crop_changed saves the rectangle in source coordinates.  The start
\* rectangle is dead after the release (the next press overwrites it before
\* any read), so it is dropped here.
MouseRelease ==
    /\ gesture # "none"
    /\ gesture' = "none"
    /\ resize_corner' = None
    /\ start_rect' = None
    /\ crop_box' = ToSource(crop_rect, img_size, Thumb)
    /\ n_gestures' = n_gestures + 1
    /\ UNCHANGED <<img_size, size_tag, in_preview_mode, crop_rect, image_bounds,
                   aspect_ratio, min_size, otherThanOverlay>>

OverlayNext ==
    \/ EnterPreviewMode
    \/ ExitPreviewMode
    \/ \E corner \in Corners : MousePressCorner(corner)
    \/ MousePressInside
    \/ \E dx \in Deltas, dy \in Deltas : MouseMoveResize(dx, dy)
    \/ \E dx \in Deltas, dy \in Deltas : MouseMoveDrag(dx, dy)
    \/ MouseRelease

SpecOverlay == OverlayInit /\ [][OverlayNext]_vars

\* C1: in preview mode the overlay's crop rectangle is fully contained in
\* the image bounds, whatever drags and corner resizes were made.
C1_CropRectInBounds ==
    in_preview_mode => ContainedIn(crop_rect, image_bounds)

\* C26: Cancel leaves the preview with the crop box the image had before the
\* preview was entered.  The image of SpecOverlay has no crop box before
\* its first preview, and a preview is left only through exit_preview_mode,
\* which is all that on_cancel_requested calls: so whenever the preview is
\* closed the image has no crop box.
C26_CancelRestoresCropBox ==
    ~in_preview_mode => crop_box = None

\* C11: every crop box stored on the image lies inside the source image:
\* x >= 0, y >= 0, x + width <= image_width, y + height <= image_height.
C11_CropBoxInsideSource ==
    crop_box # None =>
        /\ crop_box[1] >= 0
        /\ crop_box[2] >= 0
        /\ crop_box[1] + crop_box[3] <= img_size[1]
        /\ crop_box[2] + crop_box[4] <= img_size[2]

----------------------------------------------------------------------------
(***************************************************************************)
(* SpecStore: resize gestures on sources of several sizes, each saved to   *)
(* image_item.crop_box on release.  The sources are 4, 3.2, 5 and 16 times *)
(* the size of their thumbnails, or as large as the thumbnail.             *)
(***************************************************************************)
StoreImages ==
    {<<800, 600>>, <<600, 800>>, <<640, 480>>, <<1000, 500>>, <<3200, 2400>>,
     <<200, 150>>}

StoreDeltas == {-FarDelta, -1, NearDelta}

\* Size tags: those of the tag panel, and "4x0", which validate_size_id
\* accepts into a size group and parse_size_ratio rejects.
StoreSizeIds == OverlaySizeIds \cup {S("4", "0")}

StoreInit ==
    /\ img_size \in StoreImages
    /\ size_tag \in StoreSizeIds
    /\ crop_box = None
    /\ in_preview_mode = FALSE
    /\ crop_rect = QRect(0, 0, 100, 100)
    /\ image_bounds = QRect(0, 0, 100, 100)
    /\ aspect_ratio = <<1, 1>>
    /\ min_size = 50
    /\ gesture = "none"
    /\ resize_corner = None
    /\ start_rect = None
    /\ n_gestures = 0
    /\ FitIdle
    /\ MapIdle
    /\ BatchIdle
    /\ ParseIdle

StoreNext ==
    \/ EnterPreviewMode
    \/ \E corner \in Corners : MousePressCorner(corner)
    \/ \E dx \in StoreDeltas, dy \in StoreDeltas : MouseMoveResize(dx, dy)
    \/ MouseRelease

SpecStore == StoreInit /\ [][StoreNext]_vars

\* The release of a resize gesture, which stores the crop box.
ResizeReleased == gesture = "resizing" /\ gesture' = "none"

\* C12: the crop box stored by the release of a resize gesture has
\* abs(width/height - ratio) < 1/min(width, height) in source pixels, the
\* ratio being that of the image's size tag.
C12_StoredRatioWithinTolerance ==
    [][(ResizeReleased /\ parse_size_ratio(size_tag) # ValueError) =>
          (crop_box'[3] > 0 /\ crop_box'[4] > 0 =>
              RatioWithinTolerance(crop_box'[3], crop_box'[4],
                                   parse_size_ratio(size_tag)))]_vars

\* C15: a size tag that parse_size_ratio rejects (invalid format or zero
\* height) is never given a substitute ratio: get_size_info yields no ratio
\* for it and no crop preview is shown for the image with a ratio in place
\* of the missing one.
C15_NoSubstituteRatio ==
    (size_tag # None /\ parse_size_ratio(size_tag) = ValueError) =>
        /\ get_size_info(size_tag) = None
        /\ ~in_preview_mode

----------------------------------------------------------------------------
(***************************************************************************)
(* SpecResize: _resize_from_corner as a function of its inputs.  The       *)
(* overlay is in the middle of a resize gesture; the start rectangle, the  *)
(* bounds, the aspect ratio and min_size are drawn from bounded sets and   *)
(* one mouse move with an arbitrary delta is applied from each corner.     *)
(***************************************************************************)
ResizeSizeIds == {S("1", "1"), S("9", "6"), S("6", "9"), S("3", "1"), S("1", "2")}

ResizeMinSizes == {1, 20, 50}

ResizeBounds ==
    {QRect(0, 25, 200, 150), QRect(25, 0, 150, 200), QRect(0, 0, 200, 200),
     QRect(0, 50, 200, 100), QRect(80, 70, 40, 60)}

\* Start rectangles inside bounds: a corner, the middle, the far corner.
ResizeStartRects(bounds) ==
    {QRect(Left(bounds), Top(bounds), 30, 30),
     QRect(Left(bounds) + 5, Top(bounds) + 10, 30, 20),
     QRect(Left(bounds) + Width(bounds) - 20, Top(bounds) + Height(bounds) - 30,
           20, 30)}

ResizeInit ==
    /\ image_bounds \in ResizeBounds
    /\ start_rect \in ResizeStartRects(image_bounds)
    /\ crop_rect = start_rect
    /\ aspect_ratio \in {parse_size_ratio(s) : s \in ResizeSizeIds}
    /\ min_size \in ResizeMinSizes
    /\ gesture = "resizing"
    /\ resize_corner = None
    /\ n_gestures = 0
    /\ img_size = None
    /\ size_tag = None
    /\ crop_box = None
    /\ in_preview_mode = TRUE
    /\ FitIdle
    /\ MapIdle
    /\ BatchIdle
    /\ ParseIdle

\* One call of _resize_from_corner (mouseMoveEvent while resizing).
ResizeFromCorner(corner, dx, dy) ==
    /\ gesture = "resizing"
    /\ n_gestures = 0
    /\ resize_corner' = corner
    /\ crop_rect' = resize_from_corner(corner, start_rect, dx, dy,
                                       aspect_ratio, min_size, image_bounds)
    /\ n_gestures' = 1
    /\ UNCHANGED <<img_size, size_tag, crop_box, in_preview_mode, image_bounds,
                   aspect_ratio, min_size, gesture, start_rect, otherThanOverlay>>

ResizeNext ==
    \E corner \in Corners, dx \in Deltas, dy \in Deltas :
        ResizeFromCorner(corner, dx, dy)

SpecResize == ResizeInit /\ [][ResizeNext]_vars

Resized == n_gestures = 1 /\ Width(crop_rect) > 0 /\ Height(crop_rect) > 0

\* C2 (as claimed): the rectangle returned by the resize satisfies
\* abs(width/height - ratio) < 1/min(width, height).
C2_ResizeRatioAsClaimed ==
    Resized => RatioWithinTolerance(Width(crop_rect), Height(crop_rect), aspect_ratio)

\* C2 (amended): the rectangle returned by the resize satisfies
\* abs(width/height - ratio) < max(1, ratio)/min(width, height): the side that
\* is derived from the ratio is truncated, so it is off by less than a pixel.
C2_ResizeRatioAmended ==
    Resized =>
        Abs(Width(crop_rect) * aspect_ratio[2] - aspect_ratio[1] * Height(crop_rect))
              * Min(Width(crop_rect), Height(crop_rect))
            < Max(aspect_ratio[1], aspect_ratio[2]) * Height(crop_rect)

\* C2 witness: a resize with ratio 3:2 whose result was shrunk to the full
\* width of the bounds and whose height is the truncated 200 / 1.5.
C2_Witness ==
    /\ Resized
    /\ aspect_ratio = <<9, 6>>
    /\ image_bounds = QRect(0, 25, 200, 150)
    /\ Width(crop_rect) = 200
    /\ Height(crop_rect) = 133

\* The handle of the returned rectangle is grabbed again and the pointer
\* comes back to where it was pressed: mousePressEvent takes the rectangle as
\* resize_start_rect and mouseMoveEvent calls _resize_from_corner with a
\* delta of (0, 0).
ResizeAgain(corner) ==
    /\ gesture = "resizing"
    /\ n_gestures = 1
    /\ ContainedIn(crop_rect, image_bounds)
    /\ resize_corner' = corner
    /\ start_rect' = crop_rect
    /\ crop_rect' = resize_from_corner(corner, crop_rect, 0, 0,
                                       aspect_ratio, min_size, image_bounds)
    /\ n_gestures' = 2
    /\ UNCHANGED <<img_size, size_tag, crop_box, in_preview_mode, image_bounds,
                   aspect_ratio, min_size, gesture, otherThanOverlay>>

ResizeAgainNext ==
    \/ ResizeNext
    \/ \E corner \in Corners : ResizeAgain(corner)

SpecResizeAgain == ResizeInit /\ [][ResizeAgainNext]_vars

\* C29: a resize with delta (0, 0) of a rectangle that an earlier resize
\* returned and that lies inside the bounds returns that rectangle.
C29_ZeroDeltaIsIdentity ==
    n_gestures = 2 => crop_rect = start_rect

\* The corner of rect opposite to the dragged one, in edge coordinates.
OppositeCorner(corner, rect) ==
    <<IF corner \in {"bottom_left", "top_left"}
      THEN Left(rect) + Width(rect) ELSE Left(rect),
      IF corner \in {"top_right", "top_left"}
      THEN Top(rect) + Height(rect) ELSE Top(rect)>>

\* C22: after a resize from a corner, the opposite corner of the returned
\* rectangle is where it was in the start rectangle.
C22_OppositeCornerFixed ==
    n_gestures = 1 =>
        OppositeCorner(resize_corner, crop_rect) =
            OppositeCorner(resize_corner, start_rect)

\* The deltas of the resize that returned crop_rect.
DeltasOfResize ==
    {d \in Deltas \X Deltas :
        crop_rect = resize_from_corner(resize_corner, start_rect, d[1], d[2],
                                       aspect_ratio, min_size, image_bounds)}

\* The raw candidate <<new_width, new_height>> of a resize by delta d.
RawCandidate(d) ==
    LET width_delta  == IF resize_corner \in {"bottom_left", "top_left"}
                        THEN -d[1] ELSE d[1]
        height_delta == IF resize_corner \in {"top_right", "top_left"}
                        THEN -d[2] ELSE d[2]
    IN  <<Max(min_size, Width(start_rect) + width_delta),
          Max(min_size, Height(start_rect) + height_delta)>>

\* The size of the ratio step of a resize by delta d.
RatioStep(d) ==
    ResizedSize(resize_corner, start_rect, d[1], d[2], aspect_ratio, min_size)

\* C23 (as claimed): the rectangle returned by a resize is no wider and no
\* higher than the raw candidate, for every corner and delta.
C23_WithinCandidateAsClaimed ==
    n_gestures = 1 =>
        \A d \in DeltasOfResize :
            /\ Width(crop_rect) <= RawCandidate(d)[1]
            /\ Height(crop_rect) <= RawCandidate(d)[2]

\* C23 (amended): the size of the ratio step is no wider and no higher than
\* the raw candidate, its width being the candidate's when height_for_width
\* <= new_height (ties included); the returned rectangle is no wider and no
\* higher than the candidate when both sides of the ratio step are at least
\* min_size.
C23_WithinCandidateAmended ==
    n_gestures = 1 =>
        \A d \in DeltasOfResize :
            /\ RatioStep(d)[1] <= RawCandidate(d)[1]
            /\ RatioStep(d)[2] <= RawCandidate(d)[2]
            /\ RawCandidate(d)[1] * aspect_ratio[2] <= RawCandidate(d)[2] * aspect_ratio[1]
                    => RatioStep(d)[1] = RawCandidate(d)[1]
            /\ (RatioStep(d)[1] >= min_size /\ RatioStep(d)[2] >= min_size) =>
                    /\ Width(crop_rect) <= RawCandidate(d)[1]
                    /\ Height(crop_rect) <= RawCandidate(d)[2]

\* C23 witness: a resize at ratio 3:2 whose candidate is limited by its
\* height: the returned rectangle has the candidate's height and is narrower
\* than the candidate.
C23_Witness ==
    /\ n_gestures = 1
    /\ aspect_ratio = <<9, 6>>
    /\ \E d \in DeltasOfResize :
          /\ RatioStep(d)[1] >= min_size /\ RatioStep(d)[2] >= min_size
          /\ Height(crop_rect) = RawCandidate(d)[2]
          /\ Width(crop_rect) < RawCandidate(d)[1]

\* The bounds can hold a rectangle of the ratio with both sides >= ms: the
\* largest rectangle of the ratio that fits in them has.
CanHoldMinSize(bounds, ratio, ms) ==
    LET fit == LargestFit(ratio, Width(bounds), Height(bounds))
    IN  fit[1] >= ms /\ fit[2] >= ms

\* C13: the rectangle returned by the resize has width >= min_size and
\* height >= min_size whenever the bounds can hold such a rectangle of the
\* aspect ratio.
C13_ResizeKeepsMinSize ==
    (n_gestures = 1 /\ CanHoldMinSize(image_bounds, aspect_ratio, min_size)) =>
        /\ Width(crop_rect) >= min_size
        /\ Height(crop_rect) >= min_size

\* C13 witness: ratio 3:1 with min_size 50, shrunk from the 30x30 start
\* rectangle: the ratio step gives 50x16 and the minimum-size step 150x50.
C13_Witness ==
    /\ n_gestures = 1
    /\ min_size = 50
    /\ aspect_ratio = <<3, 1>>
    /\ CanHoldMinSize(image_bounds, aspect_ratio, min_size)
    /\ Width(start_rect) = 30
    /\ Width(crop_rect) = 150
    /\ Height(crop_rect) = 50

----------------------------------------------------------------------------
(***************************************************************************)
(* SpecMap: the coordinate round trip.  A crop box inside the source       *)
(* image is applied to the overlay (_apply_crop_box_to_overlay) and saved  *)
(* back (_save_crop_from_overlay) without any gesture in between.          *)
(***************************************************************************)
\* Offsets and sizes 0..MaxOffset are tried pixel by pixel.
MaxOffset == 6

\* Sources larger than the label (thumbnail scaled down), as large as the
\* thumbnail, and smaller than the label (thumbnail scaled up).
MapImages == {<<800, 600>>, <<600, 800>>, <<3200, 2400>>, <<200, 150>>, <<100, 80>>}

\* Boxes <<x, y, width, height>> fully inside a source of size img.
MapBoxes(img) ==
    {<<x, y, w, h>> :
        x \in (0..MaxOffset) \cup {img[1] \div 2},
        y \in {0, MaxOffset, img[2] \div 2},
        w \in (1..MaxOffset) \cup {img[1] \div 2},
        h \in {1, MaxOffset, img[2] \div 2}}

MapInit ==
    /\ img_size \in MapImages
    /\ map_box \in MapBoxes(img_size)
    /\ map_pc = "stored"
    /\ crop_box = map_box
    /\ crop_rect = QRect(0, 0, 100, 100)
    /\ image_bounds = get_pixmap_rect(Thumb)
    /\ aspect_ratio = <<1, 1>>
    /\ min_size = 50
    /\ size_tag = None
    /\ in_preview_mode = TRUE
    /\ gesture = "none"
    /\ resize_corner = None
    /\ start_rect = None
    /\ n_gestures = 0
    /\ FitIdle
    /\ BatchIdle
    /\ ParseIdle

\* ImageWidget._apply_crop_box_to_overlay(image_item.crop_box).
ApplyCropBoxToOverlay ==
    /\ map_pc = "stored"
    /\ map_pc' = "applied"
    /\ crop_rect' = ToPreview(crop_box, img_size, Thumb)
    /\ UNCHANGED <<map_box, img_size, size_tag, crop_box, in_preview_mode,
                   image_bounds, aspect_ratio, min_size, gesture, resize_corner,
                   start_rect, n_gestures, fitVars, batchVars, parseVars>>

\* ImageWidget._save_crop_from_overlay.
SaveCropFromOverlay ==
    /\ map_pc = "applied"
    /\ map_pc' = "saved"
    /\ crop_box' = ToSource(crop_rect, img_size, Thumb)
    /\ UNCHANGED <<map_box, img_size, size_tag, crop_rect, in_preview_mode,
                   image_bounds, aspect_ratio, min_size, gesture, resize_corner,
                   start_rect, n_gestures, fitVars, batchVars, parseVars>>

MapNext == ApplyCropBoxToOverlay \/ SaveCropFromOverlay

SpecMap == MapInit /\ [][MapNext]_vars

\* C8 (as claimed): after the round trip, x, y, width and height each differ
\* from the original box's by at most 1 pixel.
C8_RoundTripAsClaimed ==
    map_pc = "saved" =>
        \A k \in 1..4 : Abs(crop_box[k] - map_box[k]) <= 1

\* C8 (amended): after the round trip each field is not larger than it was
\* and smaller by less than one preview pixel plus one source pixel:
\* 0 <= r - r' < source/thumbnail + 1 along the field's axis.
C8_RoundTripAmended ==
    map_pc = "saved" =>
        \A k \in 1..4 :
            LET axis == IF k \in {1, 3} THEN 1 ELSE 2
                lost == map_box[k] - crop_box[k]
            IN  /\ lost >= 0
                /\ lost * Thumb[axis] < img_size[axis] + Thumb[axis]

\* C8 witness: a round trip through a thumbnail smaller than the source that
\* did not give the box back.
C8_Witness ==
    /\ map_pc = "saved"
    /\ img_size = <<800, 600>>
    /\ Thumb = <<200, 150>>
    /\ crop_box # map_box

----------------------------------------------------------------------------
(***************************************************************************)
(* SpecBatch: a project whose tagged images are cropped by a CropWorker    *)
(* thread while the user may press Cancel in the progress dialog.  The     *)
(* worker's run() is cut at the points where the GUI thread can            *)
(* interleave: the loop head, the call of crop_image, and the save inside  *)
(* crop_image.                                                             *)
(***************************************************************************)
\* Images in the project.
MaxItems == 3

\* File names of the input folder, by position in Project.images.
BaseNames == <<"a", "b", "c", "d", "e">>

\* What an image of the project can look like when Save is pressed: untagged;
\* tagged with no crop box, with a crop box smaller than the maximal fit, on a
\* portrait source; tagged but undecodable; tagged with a size that does not
\* resolve to a ratio.  dims is the size of the file on disk (None: undecodable).
ItemKinds ==
    {[ext |-> "jpg", dims |-> <<800, 600>>, album_tag |-> None,
      size_tag |-> None, crop_box |-> None],
     [ext |-> "jpg", dims |-> <<4000, 3000>>, album_tag |-> <<"A">>,
      size_tag |-> S("9", "6"), crop_box |-> None],
     [ext |-> "png", dims |-> <<4000, 3000>>, album_tag |-> <<"A">>,
      size_tag |-> S("9", "6"), crop_box |-> <<10, 20, 300, 200>>],
     [ext |-> "jpg", dims |-> <<600, 800>>, album_tag |-> <<"B">>,
      size_tag |-> S("1", "1"), crop_box |-> <<0, 100, 600, 600>>],
     [ext |-> "heic", dims |-> None, album_tag |-> <<"A">>,
      size_tag |-> S("9", "6"), crop_box |-> None],
     [ext |-> "jpg", dims |-> <<800, 600>>, album_tag |-> <<"A">>,
      size_tag |-> S("4", "0"), crop_box |-> None]}

\* ImageItem.__init__ followed by the tags and crop box of kind k.
ImageItem(name, k) ==
    [file_path |-> <<name, k.ext>>, album_tag |-> k.album_tag,
     size_tag |-> k.size_tag, crop_box |-> k.crop_box, is_cropped |-> FALSE]

\* ImageItem.is_fully_tagged.
is_fully_tagged(image) == image.album_tag # None /\ image.size_tag # None

\* Project.get_tagged_images: the fully tagged items, in project order.  The
\* list holds the items themselves, here their positions in images.
RECURSIVE TaggedFrom(_, _)
TaggedFrom(imgs, k) ==
    IF k > Len(imgs) THEN <<>>
    ELSE IF is_fully_tagged(imgs[k]) THEN <<k>> \o TaggedFrom(imgs, k + 1)
    ELSE TaggedFrom(imgs, k + 1)

get_tagged_images(imgs) == TaggedFrom(imgs, 1)

\* The output path of an item: output_folder/size_tag/base_name.jpg.
output_path(image) == <<image.size_tag, image.file_path[1], "jpg">>

\* Mutation of ResizeTarget: the cropped region is saved as it is.
ResizeTarget_none(dimensions, box) ==
    IF box # None THEN <<box[3], box[4]>> ELSE dimensions

\* crop_image's resize: the size of final_img, whatever the crop box.
ResizeTarget(dimensions, box) == dimensions

\* crop_image up to the save: the size of final_img, or None when Image.open
\* raises, get_crop_dimensions returns None, or the resize raises (a target
\* side of 0).
final_image(image, disk) ==
    LET size == disk[image.file_path]
    IN  IF size = None THEN None
        ELSE LET dimensions == get_crop_dimensions(image.size_tag, size[1], size[2])
             IN  IF dimensions = None THEN None
                 ELSE IF dimensions[1] <= 0 \/ dimensions[2] <= 0 THEN None
                 ELSE ResizeTarget(dimensions, image.crop_box)

\* Mutation of CountAfter: every returned item is counted.
CountAfter_always(count, success) == count + 1

\* run's "if success: cropped_count += 1".
CountAfter(count, success) == IF success THEN count + 1 ELSE count

\* Mutation of StopRequested: the loop head does not look at the flag.
StopRequested_never(flag) == FALSE

\* run's "if self.cancelled" at the loop head.
StopRequested(flag) == flag

\* Mutation of FlagAfterCancel: cancel() leaves the flag as it is.
FlagAfterCancel_unchanged(flag) == flag

\* CropWorker.cancel: self.cancelled = True.
FlagAfterCancel(flag) == TRUE

\* The file name of the k-th image: its own, or, for the image dup, the name
\* of the image before it (two files that differ in their extension only).
FileName(k, dup) == IF k = dup THEN BaseNames[k - 1] ELSE BaseNames[k]

\* Project.load_images lists every supported file of the input folder, so
\* the file paths are distinct while the base names need not be.
BatchInit ==
    /\ \E n \in 1..MaxItems :
         \E kinds \in [1..n -> ItemKinds], dup \in {0} \cup (2..n) :
            /\ dup # 0 => kinds[dup].ext # kinds[dup - 1].ext
            /\ images = [k \in 1..n |-> ImageItem(FileName(k, dup), kinds[k])]
            /\ files = [p \in {<<FileName(k, dup), kinds[k].ext>> : k \in 1..n} |->
                          LET k == CHOOSE j \in 1..n :
                                       <<FileName(j, dup), kinds[j].ext>> = p
                          IN  kinds[k].dims]
    /\ worker_pc = "idle"
    /\ cancelled = FALSE
    /\ tagged_images = <<>>
    /\ item_index = 0
    /\ cropped_count = 0
    /\ final_img = None
    /\ progress_updated = <<>>
    /\ finished_signal = <<>>
    /\ attempts = <<>>
    /\ written = <<>>
    /\ cancel_at = None
    /\ FitIdle
    /\ OverlayIdle
    /\ MapIdle
    /\ ParseIdle

\* The item run's loop is at: tagged_images[i], read through the reference.
CurrentItem == images[tagged_images[item_index + 1]]

\* MainWindow.on_save_requested: with no tagged image it returns; otherwise
\* the preview is left, the progress dialog is shown and the worker started.
OnSaveRequested ==
    /\ worker_pc = "idle"
    /\ get_tagged_images(images) # <<>>
    /\ worker_pc' = "run"
    /\ cancelled' = FALSE
    /\ UNCHANGED <<images, files, tagged_images, item_index, cropped_count,
                   final_img, progress_updated, finished_signal, attempts,
                   written, cancel_at, otherThanBatch>>

\* CropWorker.run up to the loop: the tagged images are listed once.
RunBegin ==
    /\ worker_pc = "run"
    /\ tagged_images' = get_tagged_images(images)
    /\ cropped_count' = 0
    /\ item_index' = 0
    /\ IF tagged_images' = <<>>
       THEN /\ finished_signal' = Append(finished_signal, 0)
            /\ worker_pc' = "done"
       ELSE /\ worker_pc' = "check"
            /\ UNCHANGED finished_signal
    /\ UNCHANGED <<images, files, cancelled, final_img, progress_updated,
                   attempts, written, cancel_at, otherThanBatch>>

\* The loop head with the flag set: finished_signal is emitted and run returns.
LoopCancelled ==
    /\ worker_pc = "check"
    /\ item_index < Len(tagged_images)
    /\ StopRequested(cancelled)
    /\ finished_signal' = Append(finished_signal, cropped_count)
    /\ worker_pc' = "done"
    /\ UNCHANGED <<images, files, cancelled, tagged_images, item_index,
                   cropped_count, final_img, progress_updated, attempts,
                   written, cancel_at, otherThanBatch>>

\* The progress update of the item at the 0-based position i of the loop.
ProgressUpdate_zeroBased(i, total, filename) == <<i, total, filename>>

ProgressUpdate(i, total, filename) == <<i + 1, total, filename>>

\* The loop head with the flag clear: the output path is built, progress is
\* emitted and crop_image is called.
LoopItem ==
    /\ worker_pc = "check"
    /\ item_index < Len(tagged_images)
    /\ ~StopRequested(cancelled)
    /\ progress_updated' = Append(progress_updated,
            ProgressUpdate(item_index, Len(tagged_images), CurrentItem.file_path))
    /\ worker_pc' = "crop"
    /\ UNCHANGED <<images, files, cancelled, tagged_images, item_index,
                   cropped_count, final_img, finished_signal, attempts,
                   written, cancel_at, otherThanBatch>>

\* The loop is exhausted: finished_signal carries the count.
LoopExhausted ==
    /\ worker_pc = "check"
    /\ item_index = Len(tagged_images)
    /\ finished_signal' = Append(finished_signal, cropped_count)
    /\ worker_pc' = "done"
    /\ UNCHANGED <<images, files, cancelled, tagged_images, item_index,
                   cropped_count, final_img, progress_updated, attempts,
                   written, cancel_at, otherThanBatch>>

\* crop_image from Image.open to the resize; it fails here.  The exception
\* is caught inside crop_image, which returns False, and the loop goes on.
CropImageFails ==
    /\ worker_pc = "crop"
    /\ final_image(CurrentItem, files) = None
    /\ attempts' = Append(attempts,
            [item |-> tagged_images[item_index + 1], success |-> FALSE])
    /\ cropped_count' = CountAfter(cropped_count, FALSE)
    /\ item_index' = item_index + 1
    /\ worker_pc' = "check"
    /\ UNCHANGED <<images, files, cancelled, tagged_images, final_img,
                   progress_updated, finished_signal, written, cancel_at,
                   otherThanBatch>>

\* crop_image from Image.open to the resize: final_img is in memory.
CropImageResized ==
    /\ worker_pc = "crop"
    /\ final_image(CurrentItem, files) # None
    /\ final_img' = final_image(CurrentItem, files)
    /\ worker_pc' = "save"
    /\ UNCHANGED <<images, files, cancelled, tagged_images, item_index,
                   cropped_count, progress_updated, finished_signal, attempts,
                   written, cancel_at, otherThanBatch>>

\* makedirs and final_img.save succeed; crop_image returns True and run marks
\* the item and counts it.
CropImageSaved ==
    /\ worker_pc = "save"
    /\ written' = Append(written,
            [path |-> output_path(CurrentItem), size |-> final_img,
             item |-> tagged_images[item_index + 1]])
    /\ images' = [images EXCEPT ![tagged_images[item_index + 1]].is_cropped = TRUE]
    /\ attempts' = Append(attempts,
            [item |-> tagged_images[item_index + 1], success |-> TRUE])
    /\ cropped_count' = CountAfter(cropped_count, TRUE)
    /\ final_img' = None
    /\ item_index' = item_index + 1
    /\ worker_pc' = "check"
    /\ UNCHANGED <<files, cancelled, tagged_images, progress_updated,
                   finished_signal, cancel_at, otherThanBatch>>

\* makedirs or final_img.save raises (disk full, no permission); crop_image
\* returns False.
CropImageSaveFails ==
    /\ worker_pc = "save"
    /\ attempts' = Append(attempts,
            [item |-> tagged_images[item_index + 1], success |-> FALSE])
    /\ cropped_count' = CountAfter(cropped_count, FALSE)
    /\ final_img' = None
    /\ item_index' = item_index + 1
    /\ worker_pc' = "check"
    /\ UNCHANGED <<images, files, cancelled, tagged_images, progress_updated,
                   finished_signal, written, cancel_at, otherThanBatch>>

\* The Cancel button of the progress dialog: on_cancel calls
\* CropWorker.cancel from the GUI thread, wherever run stands.
Cancel ==
    /\ worker_pc \in {"run", "check", "path", "crop", "save"}
    /\ cancel_at = None
    /\ cancelled' = FlagAfterCancel(cancelled)
    /\ cancel_at' = <<[pc |-> worker_pc, index |-> item_index,
                       started |-> Len(progress_updated),
                       returned |-> Len(attempts),
                       written |-> Len(written)]>>
    /\ UNCHANGED <<images, files, worker_pc, tagged_images, item_index,
                   cropped_count, final_img, progress_updated, finished_signal,
                   attempts, written, otherThanBatch>>

BatchNext ==
    \/ OnSaveRequested
    \/ RunBegin
    \/ LoopCancelled
    \/ LoopItem
    \/ LoopExhausted
    \/ CropImageFails
    \/ CropImageResized
    \/ CropImageSaved
    \/ CropImageSaveFails
    \/ Cancel

SpecBatch == BatchInit /\ [][BatchNext]_vars

\* Number of crop_image calls that returned True.
Succeeded == Cardinality({a \in 1..Len(attempts) : attempts[a].success})

\* C4: every output the batch has written has exactly the maximal-fit size
\* for the item's size tag and the source file's own width and height,
\* whatever the size of the item's crop box.
C4_OutputIsMaximalFit ==
    \A w \in 1..Len(written) :
        LET image == images[written[w].item]
            size  == files[image.file_path]
        IN  written[w].size =
                LargestFit(parse_size_ratio(image.size_tag), size[1], size[2])

\* C4 witness: the 4000x3000 item with the 300x200 crop box was written as
\* 4000x2666.
C4_Witness ==
    \E w \in 1..Len(written) :
        /\ images[written[w].item].crop_box = <<10, 20, 300, 200>>
        /\ images[written[w].item].is_cropped
        /\ written[w].size = <<4000, 2666>>

\* C5: when a run that was not cancelled has finished, crop_image has been
\* called once for every tagged item, in order, whatever failed on the way,
\* and the count finished_signal carries is the number of calls that
\* succeeded.
C5_FailureDoesNotAbort ==
    (worker_pc = "done" /\ cancel_at = None) =>
        /\ [a \in 1..Len(attempts) |-> attempts[a].item] = get_tagged_images(images)
        /\ finished_signal = <<Succeeded>>
        /\ Len(written) = Succeeded

\* C5 witness: a finished run of three tagged items whose second item is
\* undecodable and whose third item was cropped after it.
C5_Witness ==
    /\ worker_pc = "done"
    /\ cancel_at = None
    /\ Len(attempts) = 3
    /\ files[images[attempts[2].item].file_path] = None
    /\ ~attempts[2].success
    /\ attempts[1].success
    /\ attempts[3].success
    /\ finished_signal = <<2>>

\* C6: when cancel() is called between two items (item k has returned, the
\* check for item k+1 has not been made), the worker stops at that check: no
\* further item is started, cropped or written, and the count it reports is
\* at most k.
C6_CancelBetweenItemsStops ==
    (cancel_at # None /\ cancel_at[1].pc = "check") =>
        /\ worker_pc \in {"check", "done"}
        /\ item_index = cancel_at[1].index
        /\ Len(progress_updated) = cancel_at[1].started
        /\ Len(attempts) = cancel_at[1].returned
        /\ Len(written) = cancel_at[1].written
        /\ cropped_count <= cancel_at[1].index
        /\ worker_pc = "done" => finished_signal = <<cropped_count>>

\* C6 witness: cancelled after item 1 of 3 returned; the worker has stopped
\* with one crop_image call made and a count of 1.
C6_Witness ==
    /\ cancel_at # None
    /\ cancel_at[1].pc = "check"
    /\ cancel_at[1].index = 1
    /\ Len(tagged_images) = 3
    /\ worker_pc = "done"
    /\ Len(attempts) = 1
    /\ finished_signal = <<1>>

\* C7: wherever run stands when cancel() is called, at most one more
\* crop_image call returns after it; an item that was in flight is not cut
\* short (its call returns, and a save that succeeds is written and
\* counted), and the worker stops at the next loop head.
C7_CancelIsCooperative ==
    cancel_at # None =>
        /\ Len(attempts) <= cancel_at[1].returned + 1
        /\ Len(progress_updated) <= cancel_at[1].started + 1
        /\ cancel_at[1].pc \in {"crop", "save"} =>
              /\ Len(progress_updated) = cancel_at[1].started
              /\ worker_pc \in {"crop", "save"} => item_index = cancel_at[1].index
              /\ worker_pc \in {"check", "done"} =>
                    /\ item_index = cancel_at[1].index + 1
                    /\ Len(attempts) = cancel_at[1].returned + 1
                    /\ attempts[Len(attempts)].item = tagged_images[item_index]
                    /\ attempts[Len(attempts)].success =>
                          /\ Len(written) = cancel_at[1].written + 1
                          /\ images[tagged_images[item_index]].is_cropped
              /\ worker_pc = "done" => finished_signal = <<cropped_count>>

\* C7 witness: cancel() arrived while item 2 of 3 was between its resize and
\* its save; the item was written, and the worker stopped with item 3 left.
C7_Witness ==
    /\ cancel_at # None
    /\ cancel_at[1].pc = "save"
    /\ cancel_at[1].index = 1
    /\ Len(tagged_images) = 3
    /\ worker_pc = "done"
    /\ Len(attempts) = 2
    /\ attempts[2].success
    /\ Len(written) = cancel_at[1].written + 1

\* C19: after a run the number of distinct output files written equals the
\* number of items cropped successfully: no two of them were written to the
\* same output path.
C19_OneOutputPerSuccess ==
    worker_pc = "done" =>
        Cardinality({written[w].path : w \in 1..Len(written)}) = Succeeded

\* The number of items the worker has handed to crop_image so far.
Attempted == Len(attempts) + (IF worker_pc \in {"crop", "save"} THEN 1 ELSE 0)

\* C20: the progress updates emitted so far are exactly one per attempted
\* item, in item order, with current = 1, 2, ... and the constant total,
\* whether the item then succeeds or fails; an item that is not attempted
\* because the run was cancelled has no progress update.
C20_OneProgressPerAttempt ==
    /\ Len(progress_updated) = Attempted
    /\ \A k \in 1..Len(progress_updated) :
          progress_updated[k] =
              <<k, Len(tagged_images), images[tagged_images[k]].file_path>>

\* A run over three tagged items that was cancelled after two attempts, one
\* failed and one successful: two progress updates.
C20_Witness ==
    /\ worker_pc = "done"
    /\ Len(tagged_images) = 3
    /\ Len(attempts) = 2
    /\ ~attempts[1].success /\ attempts[2].success
    /\ progress_updated = <<<<1, 3, images[tagged_images[1]].file_path>>,
                            <<2, 3, images[tagged_images[2]].file_path>>>>

\* What a finished run hands to its caller: the arguments of the one
\* finished_signal emission.  The signal is pyqtSignal(int), so the result
\* has the count and no other field.
BatchResult == [cropped_count |-> finished_signal[Len(finished_signal)]]

\* The paths of the items whose crop_image call returned False.
FailedPaths ==
    {images[attempts[a].item].file_path :
        a \in {b \in 1..Len(attempts) : ~attempts[b].success}}

\* C17: the result of a finished run lists the failed items: it has a list
\* failed_items of (path, reason) pairs whose paths are those of the items
\* whose crop failed.
C17_ResultListsFailures ==
    (worker_pc = "done" /\ FailedPaths # {}) =>
        /\ "failed_items" \in DOMAIN BatchResult
        /\ {BatchResult.failed_items[k][1] :
                k \in 1..Len(BatchResult.failed_items)} = FailedPaths

\* The run returned from the cancelled check at the loop head, with items
\* left.
StoppedByCancel == worker_pc = "done" /\ item_index < Len(tagged_images)

\* C18: the result of a finished run says whether the run was stopped by
\* cancellation: it has a field cancelled, true exactly for a run that
\* returned at the cancelled check, next to the count.
C18_ResultSaysCancelled ==
    worker_pc = "done" =>
        /\ "cancelled" \in DOMAIN BatchResult
        /\ BatchResult.cancelled = StoppedByCancel

----------------------------------------------------------------------------
(***************************************************************************)
(* SpecProject: the worker of SpecBatch together with the handlers of the  *)
(* main window that change an image (click, double click, rotate).  The    *)
(* progress dialog is window-modal, so the handlers run only while it is   *)
(* not shown.  The loop head is cut once more, between the cancelled check *)
(* and the building of the output path, where the GUI thread can run too.  *)
(***************************************************************************)
\* Images in the project of SpecProject.
MaxProjectItems == 2

\* The tags selected in the tag panel.
SelectedAlbum == <<"A">>
SelectedSize == S("9", "6")

ProjectInit ==
    /\ BatchInit
    /\ Len(images) <= MaxProjectItems

\* The worker thread is alive: run has been started and has not returned.
WorkerRunning == worker_pc \in {"run", "check", "path", "crop", "save"}

\* The QProgressDialog of on_save_requested is shown and blocks the main
\* window.  It is shown before the worker starts; it hides itself when
\* Cancel is pressed and when its value reaches its maximum, which
\* on_progress makes happen with the progress update of the last item, and
\* on_finished closes it.
WindowBlocked ==
    /\ worker_pc \in {"run", "check", "path", "crop", "save", "raised"}
    /\ ~cancelled
    /\ ~(/\ progress_updated # <<>>
         /\ progress_updated[Len(progress_updated)][1] =
                progress_updated[Len(progress_updated)][2])

\* MainWindow.on_image_clicked with both tags selected: set_tags.
UiImageClicked(k) ==
    /\ ~WindowBlocked
    /\ worker_pc # "idle"
    /\ images' = [images EXCEPT ![k].album_tag = SelectedAlbum,
                                ![k].size_tag = SelectedSize]
    /\ UNCHANGED <<files, worker_pc, cancelled, tagged_images, item_index,
                   cropped_count, final_img, progress_updated, finished_signal,
                   attempts, written, cancel_at, otherThanBatch>>

\* MainWindow.on_image_double_clicked: clear_tags.
UiImageDoubleClicked(k) ==
    /\ ~WindowBlocked
    /\ worker_pc # "idle"
    /\ images' = [images EXCEPT ![k].album_tag = None,
                                ![k].size_tag = None,
                                ![k].crop_box = None]
    /\ UNCHANGED <<files, worker_pc, cancelled, tagged_images, item_index,
                   cropped_count, final_img, progress_updated, finished_signal,
                   attempts, written, cancel_at, otherThanBatch>>

\* MainWindow.on_rotate_requested on the selected image, the rotation
\* succeeding: the file is turned by 90 degrees and the crop box dropped.
UiRotateRequested(k) ==
    /\ ~WindowBlocked
    /\ worker_pc # "idle"
    /\ files[images[k].file_path] # None
    /\ files' = [files EXCEPT ![images[k].file_path] = <<@[2], @[1]>>]
    /\ images' = [images EXCEPT ![k].crop_box = None]
    /\ UNCHANGED <<worker_pc, cancelled, tagged_images, item_index,
                   cropped_count, final_img, progress_updated, finished_signal,
                   attempts, written, cancel_at, otherThanBatch>>

\* The loop head with the flag clear, up to the check.
LoopCheckPassed ==
    /\ worker_pc = "check"
    /\ item_index < Len(tagged_images)
    /\ ~StopRequested(cancelled)
    /\ worker_pc' = "path"
    /\ UNCHANGED <<images, files, cancelled, tagged_images, item_index,
                   cropped_count, final_img, progress_updated, finished_signal,
                   attempts, written, cancel_at, otherThanBatch>>

\* The output path is built from the item's size tag as it is now, and
\* progress is emitted.
BuildOutputPath ==
    /\ worker_pc = "path"
    /\ CurrentItem.size_tag # None
    /\ progress_updated' = Append(progress_updated,
            ProgressUpdate(item_index, Len(tagged_images), CurrentItem.file_path))
    /\ worker_pc' = "crop"
    /\ UNCHANGED <<images, files, cancelled, tagged_images, item_index,
                   cropped_count, final_img, finished_signal, attempts,
                   written, cancel_at, otherThanBatch>>

\* os.path.join raises TypeError on a size tag of None; nothing in run
\* catches it, and the thread ends without emitting finished_signal.
BuildOutputPathRaises ==
    /\ worker_pc = "path"
    /\ CurrentItem.size_tag = None
    /\ worker_pc' = "raised"
    /\ UNCHANGED <<images, files, cancelled, tagged_images, item_index,
                   cropped_count, final_img, progress_updated, finished_signal,
                   attempts, written, cancel_at, otherThanBatch>>

\* The steps of the worker thread.
WorkerNext ==
    \/ RunBegin
    \/ LoopCancelled
    \/ LoopCheckPassed
    \/ BuildOutputPath
    \/ BuildOutputPathRaises
    \/ LoopExhausted
    \/ CropImageFails
    \/ CropImageResized
    \/ CropImageSaved
    \/ CropImageSaveFails

\* The steps of the GUI thread.
UiNext ==
    \/ OnSaveRequested
    \/ Cancel
    \/ \E k \in 1..Len(images) : UiImageClicked(k)
    \/ \E k \in 1..Len(images) : UiImageDoubleClicked(k)
    \/ \E k \in 1..Len(images) : UiRotateRequested(k)

ProjectNext == WorkerNext \/ UiNext

\* A started thread keeps running until run returns or raises.
SpecProject == ProjectInit /\ [][ProjectNext]_vars /\ WF_vars(WorkerNext)

\* C21: while the worker runs, an image's size_tag, crop_box and file_path
\* do not change, and is_cropped changes only when the worker's crop_image
\* call returns.
C21_WorkerOwnsImages ==
    [][WorkerRunning =>
          \A k \in 1..Len(images) :
              /\ images'[k].size_tag = images[k].size_tag
              /\ images'[k].crop_box = images[k].crop_box
              /\ images'[k].file_path = images[k].file_path
              /\ images'[k].is_cropped # images[k].is_cropped =>
                     (worker_pc = "save" /\ worker_pc' = "check")]_vars

\* C27: an image whose is_cropped flag is set has both its album tag and its
\* size tag.
C27_CroppedIsFullyTagged ==
    \A k \in 1..Len(images) : images[k].is_cropped => is_fully_tagged(images[k])

\* C30: every started run of the worker ends with its finished_signal emitted
\* once, carrying the number of items the run cropped.
C30_RunFinishesOnce ==
    (worker_pc = "run") ~> (worker_pc = "done" /\ finished_signal = <<Succeeded>>)

----------------------------------------------------------------------------
(***************************************************************************)
(* SpecTags: the life of one image's tags and crop box.  Outside the crop  *)
(* preview a click applies the size selected in the tag panel and a double *)
(* click clears the tags; the preview creates the crop box and gestures    *)
(* replace it.  album_tag is set and cleared together with size_tag by     *)
(* these handlers, so is_fully_tagged is size_tag # None here.             *)
(***************************************************************************)
\* Sizes selected in the tag panel.
TagSizeIds == {S("9", "6"), S("1", "1")}

\* Pointer deltas of the gestures.
TagDeltas == {-FarDelta, NearDelta}

TagsInit ==
    /\ img_size = <<800, 600>>
    /\ size_tag = None
    /\ crop_box = None
    /\ in_preview_mode = FALSE
    /\ crop_rect = QRect(0, 0, 100, 100)
    /\ image_bounds = QRect(0, 0, 100, 100)
    /\ aspect_ratio = <<1, 1>>
    /\ min_size = 50
    /\ gesture = "none"
    /\ resize_corner = None
    /\ start_rect = None
    /\ n_gestures = 0
    /\ FitIdle
    /\ MapIdle
    /\ BatchIdle
    /\ ParseIdle

\* ImageGrid.on_image_clicked and MainWindow.on_image_clicked: outside the
\* preview, the selected tags are applied with ImageItem.set_tags.
OnImageClicked(size) ==
    /\ ~in_preview_mode
    /\ size_tag' = size
    /\ UNCHANGED <<img_size, crop_box, in_preview_mode, crop_rect, image_bounds,
                   aspect_ratio, min_size, gesture, resize_corner, start_rect,
                   n_gestures, otherThanOverlay>>

\* ImageGrid.on_image_double_clicked and MainWindow.on_image_double_clicked:
\* outside the preview, ImageItem.clear_tags.
OnImageDoubleClicked ==
    /\ ~in_preview_mode
    /\ size_tag' = None
    /\ crop_box' = None
    /\ UNCHANGED <<img_size, in_preview_mode, crop_rect, image_bounds,
                   aspect_ratio, min_size, gesture, resize_corner, start_rect,
                   n_gestures, otherThanOverlay>>

TagsNext ==
    \/ \E size \in TagSizeIds : OnImageClicked(size)
    \/ OnImageDoubleClicked
    \/ EnterPreviewMode
    \/ ExitPreviewMode
    \/ \E corner \in Corners : MousePressCorner(corner)
    \/ MousePressInside
    \/ \E dx \in TagDeltas, dy \in TagDeltas : MouseMoveResize(dx, dy)
    \/ \E dx \in TagDeltas, dy \in TagDeltas : MouseMoveDrag(dx, dy)
    \/ MouseRelease

SpecTags == TagsInit /\ [][TagsNext]_vars

\* C3: whenever a step changes the image's size_tag (to another size or to
\* None), the image has no crop box after the step, so that a crop box is
\* always one made for the current size_tag.
C3_CropBoxClearedWithTag ==
    [][size_tag' # size_tag => crop_box' = None]_vars

----------------------------------------------------------------------------
(***************************************************************************)
(* SpecParse: the three size identifier functions of Config applied to     *)
(* one string, in any order.                                               *)
(***************************************************************************)
\* Longest string tried character by character.
MaxIdLen == 3

\* Characters of the strings tried: digits, both cases of x, a letter and a
\* newline.
IdChars == {"0", "6", "9", "x", "X", "a", "\n"}

RECURSIVE StringsOfLen(_)
StringsOfLen(n) ==
    IF n = 0 THEN {<<>>}
    ELSE {Append(t, c) : t \in StringsOfLen(n - 1), c \in IdChars}

\* Every string of up to MaxIdLen characters, and the identifiers of the
\* size groups followed by further characters.
ParseInputs ==
    (UNION {StringsOfLen(n) : n \in 0..MaxIdLen})
        \cup {S("9", "6") \o <<"a", "b", "c">>, S("9", "6") \o <<"x", "4">>,
              S("9", "6") \o <<" ">>, <<"1", "0", "x", "8">>, <<" ">> \o S("9", "6")}

ParseInit ==
    /\ parse_arg \in ParseInputs
    /\ parse_done = {}
    /\ ratio_result = None
    /\ dims_result = None
    /\ valid_result = FALSE
    /\ FitIdle
    /\ OverlayIdle
    /\ MapIdle
    /\ BatchIdle

CallParseSizeRatio ==
    /\ "ratio" \notin parse_done
    /\ ratio_result' = parse_size_ratio(parse_arg)
    /\ parse_done' = parse_done \cup {"ratio"}
    /\ UNCHANGED <<parse_arg, dims_result, valid_result, otherThanParse>>

CallParseSizeDimensions ==
    /\ "dims" \notin parse_done
    /\ dims_result' = parse_size_dimensions(parse_arg)
    /\ parse_done' = parse_done \cup {"dims"}
    /\ UNCHANGED <<parse_arg, ratio_result, valid_result, otherThanParse>>

CallValidateSizeId ==
    /\ "validate" \notin parse_done
    /\ valid_result' = validate_size_id(parse_arg)
    /\ parse_done' = parse_done \cup {"validate"}
    /\ UNCHANGED <<parse_arg, ratio_result, dims_result, otherThanParse>>

ParseNext ==
    \/ CallParseSizeRatio
    \/ CallParseSizeDimensions
    \/ CallValidateSizeId

SpecParse == ParseInit /\ [][ParseNext]_vars

\* The string is digits, x or X, digits and nothing else: ^\d+x\d+$ in full.
FullMatch(id) ==
    LET n1 == DigitRun(id, 1)
        n2 == DigitRun(id, n1 + 2)
    IN  /\ n1 >= 1
        /\ Len(id) = n1 + 1 + n2
        /\ id[n1 + 1] \in {"x", "X"}
        /\ n2 >= 1

\* C14: for a string that does not match ^\d+x\d+$ in full, parse_size_ratio
\* and parse_size_dimensions fail with ValueError and return nothing.
C14_PartialMatchRejected ==
    ~FullMatch(parse_arg) =>
        /\ "ratio" \in parse_done => ratio_result = ValueError
        /\ "dims" \in parse_done => dims_result = ValueError

\* C28: an identifier that validate_size_id accepts is parsed by
\* parse_size_ratio without error.
C28_ValidatedIdParses ==
    ({"validate", "ratio"} \subseteq parse_done /\ valid_result) =>
        ratio_result # ValueError

----------------------------------------------------------------------------
(***************************************************************************)
(* SpecFallback: the crop preview of an image without a crop box when the  *)
(* automatic suggestion fails (Image.open or smartcrop raises): the except *)
(* branch of _calculate_initial_crop calls _set_centered_crop.             *)
(***************************************************************************)
FallbackImages ==
    {<<4000, 3000>>, <<3200, 2400>>, <<800, 600>>, <<600, 800>>, <<400, 400>>,
     <<3000, 2000>>, <<1600, 1200>>, <<640, 480>>, <<1000, 500>>, <<6000, 4000>>,
     <<1200, 1600>>, <<2400, 3200>>, <<200, 150>>}

FallbackSizeIds == {S("9", "6"), S("1", "1"), S("6", "9"), S("3", "1"), S("1", "2")}

FallbackInit ==
    /\ img_size \in FallbackImages
    /\ size_tag \in FallbackSizeIds
    /\ crop_box = None
    /\ in_preview_mode = FALSE
    /\ crop_rect = QRect(0, 0, 100, 100)
    /\ image_bounds = QRect(0, 0, 100, 100)
    /\ aspect_ratio = <<1, 1>>
    /\ min_size = 50
    /\ gesture = "none"
    /\ resize_corner = None
    /\ start_rect = None
    /\ n_gestures = 0
    /\ FitIdle
    /\ MapIdle
    /\ BatchIdle
    /\ ParseIdle

\* ImageWidget.enter_preview_mode for an image without a crop box whose
\* suggestion raises: the exception is caught, the centred rectangle is set
\* on the overlay and saved to the image.
EnterPreviewModeSuggestionFails ==
    /\ ~in_preview_mode
    /\ size_tag # None
    /\ crop_box = None
    /\ in_preview_mode' = TRUE
    /\ LET info  == get_size_info(size_tag)
           ratio == IF info # None THEN info ELSE <<1, 1>>
       IN  /\ aspect_ratio' = ratio
           /\ image_bounds' = get_pixmap_rect(Thumb)
           /\ crop_rect' = centered_crop(ratio, Thumb)
           /\ crop_box' = ToSource(crop_rect', img_size, Thumb)
    /\ UNCHANGED <<img_size, size_tag, min_size, gesture, resize_corner,
                   start_rect, n_gestures, otherThanOverlay>>

FallbackNext ==
    \/ EnterPreviewModeSuggestionFails
    \/ ExitPreviewMode

SpecFallback == FallbackInit /\ [][FallbackNext]_vars

----------------------------------------------------------------------------
(***************************************************************************)
(* SpecSuggest: the crop preview is entered and left without a gesture,    *)
(* on images with and without a stored crop box.  The sources are larger   *)
(* than the analysis size (landscape and portrait, with an analysis side   *)
(* that is rounded), smaller than it, or unreadable.                       *)
(***************************************************************************)
\* What ImageLoader.get_image_dimensions returns for a file it cannot read.
Unreadable == <<0, 0>>

SuggestImages ==
    {<<1920, 1080>>, <<1080, 1920>>, <<4000, 3000>>, <<800, 600>>, <<400, 400>>,
     Unreadable}

SuggestInit ==
    /\ img_size \in SuggestImages
    /\ size_tag \in FallbackSizeIds
    /\ crop_box \in {None, <<10, 20, 300, 200>>}
    /\ in_preview_mode = FALSE
    /\ crop_rect = QRect(0, 0, 100, 100)
    /\ image_bounds = QRect(0, 0, 100, 100)
    /\ aspect_ratio = <<1, 1>>
    /\ min_size = 50
    /\ gesture = "none"
    /\ resize_corner = None
    /\ start_rect = None
    /\ n_gestures = 0
    /\ FitIdle
    /\ MapIdle
    /\ BatchIdle
    /\ ParseIdle

\* enter_preview_mode on an image whose file cannot be read: Image.open
\* raises or get_image_dimensions returns (0, 0), _set_centered_crop puts the
\* rectangle in the label's rectangle and _save_crop_from_overlay returns
\* before it stores anything.
EnterPreviewModeUnreadable ==
    /\ ~in_preview_mode
    /\ img_size = Unreadable
    /\ in_preview_mode' = TRUE
    /\ aspect_ratio' = get_size_info(size_tag)
    /\ image_bounds' = get_pixmap_rect(<<thumbnail_size, thumbnail_size>>)
    /\ crop_rect' = centered_crop(aspect_ratio', <<thumbnail_size, thumbnail_size>>)
    /\ UNCHANGED <<img_size, size_tag, crop_box, min_size, gesture, resize_corner,
                   start_rect, n_gestures, otherThanOverlay>>

SuggestNext ==
    \/ img_size # Unreadable /\ EnterPreviewMode
    \/ EnterPreviewModeUnreadable
    \/ ExitPreviewMode

SpecSuggest == SuggestInit /\ [][SuggestNext]_vars

\* The preview is entered.
Entering == ~in_preview_mode /\ in_preview_mode'

\* The boxes _calculate_initial_crop can store from an answer of the
\* suggester: one for each origin that keeps the requested box inside the
\* analysis bitmap.
SuggestedBoxes ==
    LET ratio  == parse_size_ratio(size_tag)
        target == AnalysisTarget(ratio, img_size)
    IN  {suggested_crop_box(origin, ratio, img_size) :
            origin \in SuggestedOrigins(AnalysisSize(img_size), target[1], target[2])}

\* C24: the crop box stored from an answer of the suggester lies inside the
\* source image.
C24_SuggestedBoxInsideSource ==
    [][(Entering /\ img_size # Unreadable /\ crop_box = None
                 /\ crop_box' \in SuggestedBoxes) =>
          /\ crop_box'[1] >= 0 /\ crop_box'[2] >= 0
          /\ crop_box'[1] + crop_box'[3] <= img_size[1]
          /\ crop_box'[2] + crop_box'[4] <= img_size[2]]_vars

\* C25 (as claimed): entering the preview leaves a stored crop box as it is
\* and gives one to every image that has none.
C25_LazyCropBoxAsClaimed ==
    [][Entering =>
          /\ crop_box # None => crop_box' = crop_box
          /\ crop_box' # None]_vars

\* C25 (amended): entering the preview leaves a stored crop box as it is, and
\* gives one to an image that has none when the image file can be read;
\* leaving the preview does not change it.
C25_LazyCropBoxAmended ==
    [][/\ Entering =>
            /\ crop_box # None => crop_box' = crop_box
            /\ img_size # Unreadable => crop_box' # None
       /\ (in_preview_mode /\ ~in_preview_mode') => crop_box' = crop_box]_vars

\* C25 witness: the preview is open on the image with the stored crop box,
\* which is shown in the overlay and is still the stored one.
C25_Witness ==
    /\ in_preview_mode
    /\ img_size = <<4000, 3000>>
    /\ crop_box = <<10, 20, 300, 200>>
    /\ crop_rect = ToPreview(crop_box, img_size, Thumb)

====
